---- MODULE Spec2Model ----
(***************************************************************************)
(* A model of mkcharlist.py: the extraction loop over the lines of the     *)
(* Unicode data file, the construction of the shared heap of names, and    *)
(* the emission of the C table.                                            *)
(*                                                                         *)
(* Text is a sequence of one-character strings.  A Python value that may   *)
(* be None is a sequence of length 0 (None) or 1 (the value).              *)
(***************************************************************************)
EXTENDS Integers, Sequences, FiniteSets

\* ------------------------------------------------------------------------
\* Bounds of the model
\* ------------------------------------------------------------------------

\* The number of input lines read from standard input before it ends.
MaxLines == 4

\* ------------------------------------------------------------------------
\* Python values
\* ------------------------------------------------------------------------

None == <<>>

Some(x) == <<x>>

Val(o) == o[1]

\* Python truth of an optional integer: None and 0 are both false.
Truthy(o) == o # None /\ Val(o) # 0

Min(S) == CHOOSE x \in S : \A y \in S : x <= y

Max(S) == CHOOSE x \in S : \A y \in S : x >= y

\* ------------------------------------------------------------------------
\* Text functions
\* ------------------------------------------------------------------------

UpperChars == <<"A", "B", "C", "D", "E", "F", "G", "H", "I", "J", "K", "L", "M",
                "N", "O", "P", "Q", "R", "S", "T", "U", "V", "W", "X", "Y", "Z">>

LowerChars == <<"a", "b", "c", "d", "e", "f", "g", "h", "i", "j", "k", "l", "m",
                "n", "o", "p", "q", "r", "s", "t", "u", "v", "w", "x", "y", "z">>

\* str.lower() on one character.
LowerChar(c) ==
    IF \E i \in 1..Len(UpperChars) : UpperChars[i] = c
    THEN LowerChars[CHOOSE i \in 1..Len(UpperChars) : UpperChars[i] = c]
    ELSE c

\* str.lower()
Lower(s) == [i \in 1..Len(s) |-> LowerChar(s[i])]

HexDigits == <<"0", "1", "2", "3", "4", "5", "6", "7", "8", "9",
               "a", "b", "c", "d", "e", "f">>

IsHexChar(c) == \E i \in 1..Len(HexDigits) : HexDigits[i] = LowerChar(c)

HexCharVal(c) == (CHOOSE i \in 1..Len(HexDigits) : HexDigits[i] = LowerChar(c)) - 1

\* Whether int(s, 16) returns rather than raising ValueError.
IsHex(s) == Len(s) > 0 /\ \A i \in 1..Len(s) : IsHexChar(s[i])

RECURSIVE HexVal(_)
\* int(s, 16) for a string of hexadecimal digits.
HexVal(s) ==
    IF Len(s) = 0 THEN 0
    ELSE 16 * HexVal(SubSeq(s, 1, Len(s) - 1)) + HexCharVal(s[Len(s)])

DecDigits == <<"0", "1", "2", "3", "4", "5", "6", "7", "8", "9">>

RECURSIVE DecStr(_)
\* str(n) for a non-negative integer.
DecStr(n) ==
    IF n < 10 THEN <<DecDigits[n + 1]>>
    ELSE DecStr(n \div 10) \o <<DecDigits[(n % 10) + 1]>>

\* The text str.format() writes for an integer field that may be None.
Fmt(o) == IF o = None THEN <<"N", "o", "n", "e">> ELSE DecStr(Val(o))

\* Whether needle occurs in hay at the 0-based index k.
OccursAt(hay, needle, k) ==
    /\ k >= 0
    /\ k + Len(needle) <= Len(hay)
    /\ SubSeq(hay, k + 1, k + Len(needle)) = needle

Occurrences(hay, needle) == {k \in 0..Len(hay) : OccursAt(hay, needle, k)}

\* str.rfind(): the highest index, or -1.
RFind(hay, needle) ==
    IF Occurrences(hay, needle) = {} THEN -1 ELSE Max(Occurrences(hay, needle))

\* str.find(needle, 1): the search misses an occurrence at index 0.
FindFrom1(hay, needle) ==
    IF Occurrences(hay, needle) \ {0} = {} THEN -1
    ELSE Min(Occurrences(hay, needle) \ {0})

\* str.find(): the lowest index at which needle occurs in hay, or -1.
Find(hay, needle) ==
    IF Occurrences(hay, needle) = {} THEN -1 ELSE Min(Occurrences(hay, needle))

\* The offset taken after the name has been appended.
OffsetAfterAppend(heap, name) == Len(heap) + Len(name)

\* Line 108: the offset of a name that is appended.
AppendOffset(heap, name) == Len(heap)

\* nameheap = char.name, in place of nameheap += char.name
HeapAssign(heap, name) == name

\* nameheap += char.name
HeapAppend(heap, name) == heap \o name

\* re.match(r'(?i)<([^,]+), (first|last)>$', name): None, or the two groups.
\* The label runs from after the '<' to the first comma and is not empty.
RangeTails == {<<",", " ", "f", "i", "r", "s", "t", ">">>,
               <<",", " ", "l", "a", "s", "t", ">">>}

Commas(name) == {i \in 1..Len(name) : name[i] = ","}

ReMatch(name) ==
    IF /\ Len(name) > 0
       /\ name[1] = "<"
       /\ Commas(name) # {}
       /\ Min(Commas(name)) >= 3
       /\ Lower(SubSeq(name, Min(Commas(name)), Len(name))) \in RangeTails
    THEN Some([label |-> SubSeq(name, 2, Min(Commas(name)) - 1),
               kind  |-> SubSeq(name, Min(Commas(name)) + 2, Len(name) - 1)])
    ELSE None

\* xrange(a, b): a, a+1, ..., b-1.
XRange(a, b) == IF b > a THEN [k \in 1..(b - a) |-> a + k - 1] ELSE <<>>

\* xrange(1, n + 1): shortest first.
XRangeUp(n) == XRange(1, n + 1)

\* xrange(n, 0, -1): n, n-1, ..., 1.
XRangeDown(n) == IF n > 0 THEN [k \in 1..n |-> n - k + 1] ELSE <<>>

\* codepoint.__init__
Codepoint(uchar, name, combining) ==
    [uchar      |-> uchar,
     combining  |-> IF combining THEN 1 ELSE 0,
     name       |-> Some(name),
     namesize   |-> Len(name),
     nameoffset |-> None]

\* codepoint.entry()
Entry(char) ==
    <<"{">> \o Fmt(char.nameoffset) \o <<",">> \o DecStr(char.namesize) \o <<",">>
            \o DecStr(char.uchar) \o <<",">> \o DecStr(char.combining) \o <<"}">>

\* The test of line 76; flags has at least two characters when the first is 'C'.
IsFiltered(flags) == flags[1] = "C" /\ flags[2] # "f"

\* maxnamesize = charlist[-1].namesize, without the comparison
MaxLast(maxsize, namesize) == namesize

\* Lines 91-92: the new maxnamesize given the last record's namesize.
MaxUpdate(maxsize, namesize) == IF maxsize < namesize THEN namesize ELSE maxsize

\* ------------------------------------------------------------------------
\* Input
\* ------------------------------------------------------------------------

\* The semicolon-separated fields of one line: line.split(';').
MkLine(uchar, name, flags) == <<uchar, name, flags, <<>>>>

\* A name of the form <label, kind>.
Marker(label, kind) == <<"<">> \o label \o <<",", " ">> \o kind \o <<">">>

FirstWord == <<"F", "i", "r", "s", "t">>

LastWord == <<"L", "a", "s", "t">>

\* The lines the extraction loop is exercised with: normal lines, control and
\* format characters, range markers, and malformed lines.
Lines ==
    { MkLine(<<"1">>, <<"A">>, <<"L", "u">>),
      MkLine(<<"2">>, <<"A", "b">>, <<"M", "n">>),
      MkLine(<<"1">>, <<"A">>, <<"C", "c">>),
      MkLine(<<"1">>, <<"b">>, <<"C", "f">>),
      MkLine(<<"1">>, <<"A">>, <<"C">>),
      MkLine(<<"2">>, <<"b">>, <<"L">>),
      MkLine(<<"1">>, <<>>, <<"L", "u">>),
      MkLine(<<"g">>, <<"A">>, <<"L", "u">>),
      <<<<"1">>, <<"A">>>>,
      MkLine(<<"0">>, Marker(<<"b", "A">>, FirstWord), <<"L", "o">>),
      MkLine(<<"1">>, Marker(<<"b", "A">>, FirstWord), <<"L", "o">>),
      MkLine(<<"1">>, Marker(<<"b", "A">>, LastWord), <<"L", "o">>),
      MkLine(<<"2">>, Marker(<<"b", "A">>, LastWord), <<"L", "o">>),
      MkLine(<<"1">>, <<"<", "A", ">">>, <<"L", "o">>) }

\* The names the heap builder is exercised with.
HeapNames ==
    { <<"A">>, <<"b">>, <<"A", "A">>, <<"A", "b">>, <<"b", "A">>, <<"b", "b">>,
      <<"C", "b">> }

HeapLines == { MkLine(<<"1">>, n, <<"L", "u">>) : n \in HeapNames }

\* ------------------------------------------------------------------------
\* State
\* ------------------------------------------------------------------------

VARIABLES
    pc,           \* "extract", "build", "entries", "heap", "done" or "abort"
    nread,        \* the number of lines read from standard input
    line,         \* the fields of the line being processed, or None
    rstart,       \* the pending start of a range, or None
    m,            \* the result of the last re.match, or None
    charlist,     \* the list of codepoint objects
    origname,     \* history: the name each codepoint object was created with
    maxnamesize,  \* the size of the longest name
    nameheap,     \* the heap of names
    si,           \* the position of the loop over sizes in its xrange
    ci,           \* the position of a loop over charlist
    hi,           \* the loop variable i of the loop that writes the heap
    stdout,       \* what has been written to standard output
    stderr,       \* what has been written to standard error
    err           \* the exception that ended the run, or ""

vars == <<pc, nread, line, rstart, m, charlist, origname, maxnamesize, nameheap,
          si, ci, hi, stdout, stderr, err>>

Init ==
    /\ pc = "extract"
    /\ nread = 0
    /\ line = None
    /\ rstart = None
    /\ m = None
    /\ charlist = <<>>
    /\ origname = <<>>
    /\ maxnamesize = 0
    /\ nameheap = <<>>
    /\ si = 0
    /\ ci = 0
    /\ hi = 0
    /\ stdout = <<>>
    /\ stderr = <<>>
    /\ err = ""

\* ------------------------------------------------------------------------
\* The extraction loop (lines 73-92)
\* ------------------------------------------------------------------------

\* An uncaught exception: the interpreter exits.
Raise(e) ==
    /\ pc' = "abort"
    /\ err' = e

\* Lines 91-92, after the list has become cl.
TrackMax(cl) ==
    IF Len(cl) = 0
    THEN /\ Raise("IndexError")
         /\ UNCHANGED maxnamesize
    ELSE /\ maxnamesize' = MaxUpdate(maxnamesize, cl[Len(cl)].namesize)
         /\ UNCHANGED <<pc, err>>

\* Lines 84-85: the records of a range.
ExpandRange(start, last, name) ==
    [k \in 1..Len(XRange(start, last + 1)) |->
        Codepoint(XRange(start, last + 1)[k], name, FALSE)]

\* Lines 81-88: a line whose name starts with '<'.
RangeLine(uchar, name) ==
    /\ m' = ReMatch(name)
    /\ IF Truthy(rstart)
       THEN IF ReMatch(name) = None
            THEN /\ Raise("AttributeError")
                 /\ UNCHANGED <<rstart, charlist, origname, maxnamesize>>
            ELSE LET label == Lower(Val(ReMatch(name)).label)
                     new   == ExpandRange(Val(rstart), uchar, label)
                 IN  /\ charlist' = charlist \o new
                     /\ origname' = origname \o [k \in 1..Len(new) |-> label]
                     /\ rstart' = None
                     /\ TrackMax(charlist \o new)
       ELSE /\ rstart' = Some(uchar)
            /\ UNCHANGED <<charlist, origname>>
            /\ TrackMax(charlist)

\* Line 90: any other line.
NormalLine(uchar, name, flags) ==
    /\ charlist' = Append(charlist, Codepoint(uchar, name, flags = <<"M", "n">>))
    /\ origname' = Append(origname, name)
    /\ UNCHANGED <<rstart, m>>
    /\ TrackMax(Append(charlist, Codepoint(uchar, name, flags = <<"M", "n">>)))

\* One iteration of the loop over the lines of standard input.
ReadLine(l) ==
    /\ pc = "extract"
    /\ nread < MaxLines
    /\ nread' = nread + 1
    /\ line' = Some(l)
    /\ UNCHANGED <<nameheap, si, ci, hi, stdout, stderr>>
    /\ IF Len(l) < 3
       THEN /\ Raise("ValueError")
            /\ UNCHANGED <<rstart, m, charlist, origname, maxnamesize>>
       ELSE IF Len(l[3]) = 0 \/ (l[3][1] = "C" /\ Len(l[3]) < 2)
       THEN /\ Raise("IndexError")
            /\ UNCHANGED <<rstart, m, charlist, origname, maxnamesize>>
       ELSE IF IsFiltered(l[3])
       THEN UNCHANGED <<pc, err, rstart, m, charlist, origname, maxnamesize>>
       ELSE IF ~IsHex(l[1])
       THEN /\ Raise("ValueError")
            /\ UNCHANGED <<rstart, m, charlist, origname, maxnamesize>>
       ELSE IF Len(l[2]) = 0
       THEN /\ Raise("IndexError")
            /\ UNCHANGED <<rstart, m, charlist, origname, maxnamesize>>
       ELSE IF Lower(l[2])[1] = "<"
       THEN RangeLine(HexVal(l[1]), Lower(l[2]))
       ELSE NormalLine(HexVal(l[1]), Lower(l[2]), l[3])

\* ------------------------------------------------------------------------
\* The heap builder (lines 99-110)
\* ------------------------------------------------------------------------

\* for size in xrange(1, maxnamesize + 1)
SizeOrderUp(maxsize) == XRangeUp(maxsize)

\* for size in xrange(maxnamesize, 0, -1)
SizeOrder(maxsize) == XRangeDown(maxsize)

\* The value of the loop variable size.
CurSize == SizeOrder(maxnamesize)[si]

\* Standard input has ended: lines 99-102.
EndOfInput ==
    /\ pc = "extract"
    /\ pc' = "build"
    /\ stderr' = Append(stderr, "Parsing the codepoint list ...\n")
    /\ nameheap' = <<>>
    /\ si' = 1
    /\ ci' = 1
    /\ UNCHANGED <<nread, line, rstart, m, charlist, origname, maxnamesize, hi,
                   stdout, err>>

\* Lines 104-105: a record of another size.
BuildSkip ==
    /\ pc = "build"
    /\ si <= Len(SizeOrder(maxnamesize))
    /\ ci <= Len(charlist)
    /\ charlist[ci].namesize # CurSize
    /\ ci' = ci + 1
    /\ UNCHANGED <<pc, nread, line, rstart, m, charlist, origname, maxnamesize,
                   nameheap, si, hi, stdout, stderr, err>>

\* Lines 106-110: a record of the current size.
BuildAssign ==
    /\ pc = "build"
    /\ si <= Len(SizeOrder(maxnamesize))
    /\ ci <= Len(charlist)
    /\ charlist[ci].namesize = CurSize
    /\ LET name  == Val(charlist[ci].name)
           found == Find(nameheap, name)
       IN  IF found = -1
           THEN /\ charlist' = [charlist EXCEPT ![ci].nameoffset =
                                                    Some(AppendOffset(nameheap, name)),
                                                ![ci].name = None]
                /\ nameheap' = HeapAppend(nameheap, name)
           ELSE /\ charlist' = [charlist EXCEPT ![ci].nameoffset = Some(found),
                                                ![ci].name = None]
                /\ UNCHANGED nameheap
    /\ ci' = ci + 1
    /\ UNCHANGED <<pc, nread, line, rstart, m, origname, maxnamesize, si, hi,
                   stdout, stderr, err>>

\* The loop over charlist is exhausted: the next size.
BuildNextSize ==
    /\ pc = "build"
    /\ si <= Len(SizeOrder(maxnamesize))
    /\ ci > Len(charlist)
    /\ si' = si + 1
    /\ ci' = 1
    /\ UNCHANGED <<pc, nread, line, rstart, m, charlist, origname, maxnamesize,
                   nameheap, hi, stdout, stderr, err>>

\* ------------------------------------------------------------------------
\* The emitter (lines 115-128)
\* ------------------------------------------------------------------------

\* The width at which the heap is wrapped.
WrapWidth == 76

Emitting == pc \in {"entries", "heap", "done"}

\* The loop over sizes is exhausted: lines 115-119.
EmitHeader ==
    /\ pc = "build"
    /\ si > Len(SizeOrder(maxnamesize))
    /\ pc' = "entries"
    /\ stdout' = stdout \o
          <<"/* This file is generated by mkcharlist.py. Do not edit directly. */\n",
            "#include \"data.h\"\n",
            "charinfo const charlist[] = {\n">>
    /\ ci' = 1
    /\ UNCHANGED <<nread, line, rstart, m, charlist, origname, maxnamesize,
                   nameheap, si, hi, stderr, err>>

\* Line 120.
EmitEntry ==
    /\ pc = "entries"
    /\ ci <= Len(charlist)
    /\ stdout' = stdout \o Entry(charlist[ci]) \o <<",\n">>
    /\ ci' = ci + 1
    /\ UNCHANGED <<pc, nread, line, rstart, m, charlist, origname, maxnamesize,
                   nameheap, si, hi, stderr, err>>

\* Lines 122-126.
EmitTrailer ==
    /\ pc = "entries"
    /\ ci > Len(charlist)
    /\ pc' = "heap"
    /\ stdout' = stdout \o
          <<"};\n",
            "int const charlistsize = sizeof charlist / sizeof *charlist;\n",
            "char const *charnamebuffer = \"\\\n">>
    /\ hi' = 0
    /\ UNCHANGED <<nread, line, rstart, m, charlist, origname, maxnamesize,
                   nameheap, si, ci, stderr, err>>

\* Line 127: nameheap[i:i+76]
EmitChunk ==
    /\ pc = "heap"
    /\ hi < Len(nameheap)
    /\ stdout' = stdout
          \o SubSeq(nameheap, hi + 1,
                    IF hi + WrapWidth < Len(nameheap) THEN hi + WrapWidth
                    ELSE Len(nameheap))
          \o <<"\\\n">>
    /\ hi' = hi + WrapWidth
    /\ UNCHANGED <<pc, nread, line, rstart, m, charlist, origname, maxnamesize,
                   nameheap, si, ci, stderr, err>>

\* Line 128.
EmitEnd ==
    /\ pc = "heap"
    /\ hi >= Len(nameheap)
    /\ pc' = "done"
    /\ stdout' = Append(stdout, "\";\n")
    /\ UNCHANGED <<nread, line, rstart, m, charlist, origname, maxnamesize,
                   nameheap, si, ci, hi, stderr, err>>

\* ------------------------------------------------------------------------
\* Specifications
\* ------------------------------------------------------------------------

Pipeline ==
    \/ EndOfInput
    \/ BuildSkip
    \/ BuildAssign
    \/ BuildNextSize
    \/ EmitHeader
    \/ EmitEntry
    \/ EmitTrailer
    \/ EmitChunk
    \/ EmitEnd

\* The whole program over the lines of Lines.
Next ==
    \/ \E l \in Lines : ReadLine(l)
    \/ Pipeline

Spec == Init /\ [][Next]_vars

\* The whole program over the lines of HeapLines.
NextHeap ==
    \/ \E l \in HeapLines : ReadLine(l)
    \/ Pipeline

SpecHeap == Init /\ [][NextHeap]_vars

\* ------------------------------------------------------------------------
\* Vocabulary of the properties
\* ------------------------------------------------------------------------

IsPrefix(s, t) == Len(s) <= Len(t) /\ SubSeq(t, 1, Len(s)) = s

Indices == 1..Len(charlist)

Assigned(i) == charlist[i].nameoffset # None

Offset(i) == Val(charlist[i].nameoffset)

\* name is a substring of text.
IsSubstring(name, text) == Occurrences(text, name) # {}

RECURSIVE SumSizes(_)
SumSizes(n) == IF n = 0 THEN 0 ELSE SumSizes(n - 1) + charlist[n].namesize

\* This step is one iteration of the extraction loop.
ReadStep == pc = "extract" /\ nread' = nread + 1

\* This step is the iteration of the heap building loop that assigns record i.
AssignStep(i) ==
    /\ pc = "build"
    /\ i \in Indices
    /\ ~Assigned(i)
    /\ charlist'[i].nameoffset # None

\* The line has its three fields, and its codepoint is hexadecimal.
WellFormed(l) == Len(l) >= 3 /\ IsHex(l[1])

\* The flag tag is neither in the control category nor too short to tell.
NotControl(l) == Len(l[3]) >= 1 /\ (l[3][1] = "C" => l[3] = <<"C", "f">>)

\* The line is an unfiltered range marker of the given kind.
IsMarker(l, kind) ==
    /\ WellFormed(l)
    /\ NotControl(l)
    /\ ReMatch(Lower(l[2])) # None
    /\ Val(ReMatch(Lower(l[2]))).kind = Lower(kind)

\* A range start is pending, and a 'first' line with this label set it.
PendingFirst(label) ==
    /\ rstart # None
    /\ m # None
    /\ Val(m).kind = Lower(FirstWord)
    /\ Val(m).label = label

\* ------------------------------------------------------------------------
\* Properties of the heap builder
\* ------------------------------------------------------------------------

\* C1: once heap building has finished, every record's nameoffset is a
\* non-negative integer, nameoffset + namesize does not exceed the length of
\* the heap, and the heap holds the record's original lowercased name at
\* nameoffset.
C1_OffsetsAddressNames ==
    Emitting =>
        \A i \in Indices :
            /\ Assigned(i)
            /\ Offset(i) >= 0
            /\ Offset(i) + charlist[i].namesize <= Len(nameheap)
            /\ charlist[i].namesize = Len(origname[i])
            /\ SubSeq(nameheap, Offset(i) + 1, Offset(i) + charlist[i].namesize)
                   = origname[i]

\* A finished run over a normal record and an expanded range, where the normal
\* record's name is found inside the range's name.
C1_Witness ==
    /\ pc = "done"
    /\ Len(charlist) = 3
    /\ origname = <<<<"a">>, <<"b", "a">>, <<"b", "a">>>>
    /\ charlist[2].uchar = 1
    /\ charlist[3].uchar = 2
    /\ Offset(1) = 1
    /\ Offset(2) = 0
    /\ nameheap = <<"b", "a">>

\* C2, as stated: when record B is processed and a record A processed before
\* it has a name that contains B's name, the heap is not grown and B's offset
\* lies within A's span.
C2_Original ==
    [][\A a, b \in Indices :
          (AssignStep(b) /\ a # b /\ Assigned(a)
              /\ IsSubstring(origname[b], origname[a]))
          => /\ nameheap' = nameheap
             /\ Offset(a) <= Val(charlist'[b].nameoffset)
             /\ Val(charlist'[b].nameoffset) + charlist[b].namesize
                    <= Offset(a) + charlist[a].namesize]_vars

\* C2, amended: when record B is processed and a record A processed before it
\* has a name that contains B's name, the heap is not grown, B's offset is at
\* most the position of B's first occurrence inside A's span, and B's span ends
\* no later than A's span; B's offset may precede A's span.
C2_Amended ==
    [][\A a, b \in Indices :
          (AssignStep(b) /\ a # b /\ Assigned(a)
              /\ IsSubstring(origname[b], origname[a]))
          => /\ nameheap' = nameheap
             /\ Val(charlist'[b].nameoffset)
                    <= Offset(a) + Find(origname[a], origname[b])
             /\ Val(charlist'[b].nameoffset) + charlist[b].namesize
                    <= Offset(a) + charlist[a].namesize
             /\ OccursAt(nameheap, origname[b], Val(charlist'[b].nameoffset))]_vars

\* A name was found before the span of a record that contains it, and another
\* inside the span of a record that contains it.
C2_Witness ==
    /\ pc = "build"
    /\ \E a, b \in Indices :
          /\ a # b /\ Assigned(a) /\ Assigned(b)
          /\ IsSubstring(origname[b], origname[a])
          /\ Len(origname[b]) < Len(origname[a])
          /\ Offset(b) < Offset(a)
    /\ \E a, b \in Indices :
          /\ a # b /\ Assigned(a) /\ Assigned(b)
          /\ IsSubstring(origname[b], origname[a])
          /\ Len(origname[b]) < Len(origname[a])
          /\ Offset(a) < Offset(b)
          /\ Offset(b) + charlist[b].namesize <= Offset(a) + charlist[a].namesize

\* C3, as stated: no occurrence of an assigned record's name starts before
\* its nameoffset, in the heap as it stands at any time from the record's
\* processing to the final heap.
C3_Original ==
    \A i \in Indices :
        Assigned(i) =>
            \A k \in 0..(Offset(i) - 1) : ~OccursAt(nameheap, origname[i], k)

\* C3, amended: the assigned nameoffset is the position of the leftmost
\* occurrence of the name in the heap as it stood before the record was
\* processed; when the name does not occur there it is the length of that
\* heap, where the name is appended.  In any later heap an occurrence that
\* starts at a smaller index overlaps the record's own span.
C3_Amended ==
    /\ [][\A i \in Indices :
             AssignStep(i) =>
                LET off == Val(charlist'[i].nameoffset)
                IN  /\ \A k \in 0..(off - 1) : ~OccursAt(nameheap, origname[i], k)
                    /\ OccursAt(nameheap', origname[i], off)
                    /\ IsSubstring(origname[i], nameheap)
                         => nameheap' = nameheap /\ OccursAt(nameheap, origname[i], off)
                    /\ ~IsSubstring(origname[i], nameheap)
                         => off = Len(nameheap)]_vars
    /\ [](\A i \in Indices :
             Assigned(i) =>
                \A k \in 0..(Offset(i) - 1) :
                    OccursAt(nameheap, origname[i], k)
                        => k + charlist[i].namesize > Offset(i))

\* The final heap holds a name found at the first of several occurrences, and
\* an appended name that also occurs across the boundary before its offset.
C3_Witness ==
    /\ Emitting
    /\ \E i \in Indices :
          /\ Cardinality(Occurrences(nameheap, origname[i])) >= 2
          /\ Offset(i) = Min(Occurrences(nameheap, origname[i]))
    /\ \E i \in Indices :
          /\ Offset(i) > Min(Occurrences(nameheap, origname[i]))

\* No record's name is a substring of another record's name.
NoSubstringPair ==
    \A i, j \in Indices : i # j => ~IsSubstring(origname[i], origname[j])

\* No record's name is a substring of two other records' names joined.
NoSubstringOfJoin ==
    \A i, j, k \in Indices :
        (i # j /\ i # k /\ j # k)
            => ~IsSubstring(origname[i], origname[j] \o origname[k])

\* C8, as stated: when no record's name is a substring of another record's
\* name, the final heap is as long as all the names together.
C8_Original ==
    (Emitting /\ NoSubstringPair) => Len(nameheap) = SumSizes(Len(charlist))

\* C8, amended: when no record's name is a substring of another record's name
\* nor of two other records' names joined, every name is appended and the
\* final heap is as long as all the names together.
C8_Amended ==
    (Emitting /\ NoSubstringPair /\ NoSubstringOfJoin)
        => Len(nameheap) = SumSizes(Len(charlist))

\* Three records of which none is reused.
C8_Witness ==
    /\ pc = "done"
    /\ Len(charlist) = 3
    /\ NoSubstringPair
    /\ NoSubstringOfJoin
    /\ Len(nameheap) = 6

\* C10: a record is processed only after every record with a longer name, and
\* after the records of its own length that precede it in charlist and before
\* those that follow it; a name is appended only after names at least as long;
\* and heap building leaves charlist's order, codepoints, lengths and
\* combining flags as they were.
C10_LongestFirstStable ==
    /\ [][\A i, j \in Indices :
             AssignStep(i) =>
                /\ charlist[j].namesize > charlist[i].namesize => Assigned(j)
                /\ (charlist[j].namesize = charlist[i].namesize /\ j < i)
                      => Assigned(j)
                /\ (charlist[j].namesize = charlist[i].namesize /\ j > i)
                      => charlist'[j].nameoffset = None
                /\ (nameheap' # nameheap /\ Assigned(j))
                      => /\ charlist[j].namesize >= Len(nameheap') - Len(nameheap)
                         /\ Offset(j) + charlist[j].namesize <= Len(nameheap)]_vars
    /\ [][pc = "build" =>
             /\ Len(charlist') = Len(charlist)
             /\ origname' = origname
             /\ \A i \in Indices :
                   /\ charlist'[i].uchar = charlist[i].uchar
                   /\ charlist'[i].namesize = charlist[i].namesize
                   /\ charlist'[i].combining = charlist[i].combining]_vars

\* A short record stands first in charlist and is still unassigned while, of
\* two longer records of one length, the earlier has been assigned and the
\* later has not.
C10_Witness ==
    /\ pc = "build"
    /\ Len(charlist) = 3
    /\ charlist[1].namesize = 1
    /\ charlist[2].namesize = 2
    /\ charlist[3].namesize = 2
    /\ ~Assigned(1)
    /\ Assigned(2)
    /\ ~Assigned(3)

\* C9: a record's nameoffset is set in one iteration of the heap building
\* loop, which sets no other record's, and never changes afterwards; no record
\* is unset once emission has started, maxnamesize being at least every
\* record's namesize; the heap only grows, each value a prefix of the next; and
\* neither the heap nor the records change once emission has started.
C9_Lifecycle ==
    /\ [][\A i \in Indices :
             /\ Assigned(i) =>
                   /\ Len(charlist') >= i
                   /\ charlist'[i].nameoffset = charlist[i].nameoffset
             /\ (~Assigned(i) /\ Len(charlist') >= i
                     /\ charlist'[i].nameoffset # None) =>
                   /\ pc = "build"
                   /\ i = ci
                   /\ \A j \in Indices \ {i} :
                         charlist'[j].nameoffset = charlist[j].nameoffset]_vars
    /\ [](pc # "abort" => \A i \in Indices : charlist[i].namesize <= maxnamesize)
    /\ [](pc # "abort" => \A i \in Indices : charlist[i].namesize >= 1)
    /\ [](Emitting => \A i \in Indices : Assigned(i))
    /\ [][IsPrefix(nameheap, nameheap')]_vars
    /\ [][Emitting => (nameheap' = nameheap /\ charlist' = charlist)]_vars

\* A finished run over a short record followed by an expanded range: the
\* range's records were assigned in the first pass over charlist, the short
\* record in the second, and the table and the heap have been written.
C9_Witness ==
    /\ pc = "done"
    /\ Len(charlist) = 3
    /\ charlist[1].namesize = 1
    /\ charlist[2].namesize = 2
    /\ charlist[3].namesize = 2
    /\ maxnamesize = 2
    /\ \A i \in Indices : Assigned(i)
    /\ Len(nameheap) = 2
    /\ stdout # <<>>

\* ------------------------------------------------------------------------
\* Properties of the extraction loop
\* ------------------------------------------------------------------------

\* C4, as stated: an unfiltered 'first' line at codepoint s, read while no
\* range is pending, adds no record and makes s the pending start; the 'last'
\* line of its pair at e >= s adds the records s..e in ascending order, each
\* named the lowercased label and not combining, and clears the pending start.
C4_Original ==
    [][ReadStep =>
          LET l == Val(line')
          IN  /\ (IsMarker(l, FirstWord) /\ rstart = None) =>
                    /\ charlist' = charlist
                    /\ rstart' = Some(HexVal(l[1]))
              /\ (/\ IsMarker(l, LastWord)
                  /\ PendingFirst(Val(ReMatch(Lower(l[2]))).label)
                  /\ HexVal(l[1]) >= Val(rstart)) =>
                    /\ Len(charlist') = Len(charlist) + HexVal(l[1]) - Val(rstart) + 1
                    /\ SubSeq(charlist', 1, Len(charlist)) = charlist
                    /\ \A k \in 1..(HexVal(l[1]) - Val(rstart) + 1) :
                          charlist'[Len(charlist) + k] =
                              Codepoint(Val(rstart) + k - 1,
                                        Val(ReMatch(Lower(l[2]))).label, FALSE)
                    /\ rstart' = None]_vars

\* C5, as stated: an unfiltered 'last' line read while no range is pending
\* ends the run with an error, and an aborted run has written nothing to
\* standard output.
C5_Original ==
    /\ [][(ReadStep /\ IsMarker(Val(line'), LastWord) /\ rstart = None)
              => pc' = "abort"]_vars
    /\ [](pc = "abort" => stdout = <<>>)

\* C6, as stated: an unfiltered line whose name field is empty adds a record
\* of namesize 0, and once heap building has finished every record of namesize
\* 0 has nameoffset 0.
C6_Original ==
    /\ [][(/\ ReadStep
           /\ WellFormed(Val(line'))
           /\ NotControl(Val(line'))
           /\ Val(line')[2] = <<>>)
              => /\ pc' = "extract"
                 /\ Len(charlist') = Len(charlist) + 1
                 /\ charlist'[Len(charlist')].namesize = 0]_vars
    /\ [](Emitting =>
             \A i \in Indices :
                 charlist[i].namesize = 0 => charlist[i].nameoffset = Some(0))

\* C7, as stated: for a flag tag of one or two characters, a line whose tag
\* starts with 'C' and does not go on with 'f' is skipped, the loop going on
\* with no record added and the pending start and maxnamesize as they were; a
\* line whose tag is 'Cf' is not skipped, and a normal one adds its record.
C7_Original ==
    [][(ReadStep /\ Len(Val(line')) >= 3 /\ Len(Val(line')[3]) \in {1, 2}) =>
          LET l == Val(line')
          IN  /\ (l[3][1] = "C" /\ (Len(l[3]) = 1 \/ l[3][2] # "f")) =>
                    /\ pc' = "extract"
                    /\ charlist' = charlist
                    /\ rstart' = rstart
                    /\ maxnamesize' = maxnamesize
              /\ (l[3] = <<"C", "f">> /\ IsHex(l[1]) /\ Len(l[2]) > 0
                      /\ Lower(l[2])[1] # "<") =>
                    /\ pc' = "extract"
                    /\ Len(charlist') = Len(charlist) + 1
                    /\ origname'[Len(charlist')] = Lower(l[2])]_vars

====
